---------------------------- MODULE Spec2Model ----------------------------
(***************************************************************************)
(* Model of notebooks/22-transform-datasource.ipynb: the template          *)
(* process_raw_data, the parser read_space_delimited (pandas.read_csv with *)
(* sep=' ', header=None, comment=None, skip_blank_lines=True, dtype=str)   *)
(* and the lvq-pak processing function process_lvq_pak.                    *)
(*                                                                         *)
(* A file is a sequence of lines, a line a sequence of one-character       *)
(* strings.  A Python dict is [type |-> "dict", items |-> set of pairs],   *)
(* None is PyNone.  A call's outcome is a record whose err is "" when the  *)
(* call returned and the exception's class name when it raised.            *)
(***************************************************************************)
EXTENDS Integers, Sequences, FiniteSets, TLC

VARIABLES fs, handles, call, ret, ret2, log

vars == <<fs, handles, call, ret, ret2, log>>

(* ------------------------------ bounds --------------------------------- *)

\* most fields on a line of a generated file
MaxFields == 2

\* most body lines of the file parsed under SpecParse
MaxRows == 2

\* most body lines of ex1.dat and of ex2.dat under Spec
MaxTrainRows == 2

MaxTestRows == 1

(* --------------------------- Python values ----------------------------- *)

PyNone == [type |-> "NoneType"]

Dict(items) == [type |-> "dict", items |-> items]

EmptyDict == Dict({})

Keys(d) == {kv[1] : kv \in d.items}

\* the float nan pandas stores for a missing value: no field of a file equals it
NaN == <<"nan">>

(* ------------------------- pandas.read_csv ----------------------------- *)

\* the entries of pandas' default na_values that the model's alphabet can spell
NAValues == {<<>>, <<"N", "A">>, <<"#", "N", "A">>}

\* sep=' ': every single space ends a field, so two spaces in a row, a leading
\* or a trailing space each give an empty field
RECURSIVE SplitFrom(_, _, _, _)
SplitFrom(line, i, cur, acc) ==
  IF i > Len(line) THEN Append(acc, cur)
  ELSE IF line[i] = " " THEN SplitFrom(line, i + 1, <<>>, Append(acc, cur))
  ELSE SplitFrom(line, i + 1, Append(cur, line[i]), acc)

SplitLine(line) == SplitFrom(line, 1, <<>>, <<>>)

\* comment=None: no character starts a comment, the line is tokenized whole
\* (with comment='#' the parser drops the line from its first '#' on)
RECURSIVE StripComment_Hash(_)
StripComment_Hash(line) ==
  IF line = <<>> \/ Head(line) = "#" THEN <<>>
  ELSE <<Head(line)>> \o StripComment_Hash(Tail(line))

StripComment(line) == line

\* skip_blank_lines=True drops a line with no character at all; a line of
\* spaces is not blank when the separator is the space
IsBlank_Kept(line) == FALSE

IsBlank(line) == line = <<>>

\* skiprows names zero-indexed lines of the file, blank lines counted
IsSkipped(i, skiprows) == (i - 1) \in skiprows

\* the tokenizer's records: the fields of every line neither skipped nor blank
RECURSIVE TokenizeFrom(_, _, _, _)
TokenizeFrom(lines, skiprows, i, acc) ==
  IF i > Len(lines) THEN acc
  ELSE IF IsSkipped(i, skiprows) \/ IsBlank(lines[i])
       THEN TokenizeFrom(lines, skiprows, i + 1, acc)
       ELSE TokenizeFrom(lines, skiprows, i + 1, Append(acc, SplitLine(StripComment(lines[i]))))

Tokenize(lines, skiprows) == TokenizeFrom(lines, skiprows, 1, <<>>)

\* header=None: the first record sets the table's width.  A later record with
\* more fields is an error, one with fewer is padded with empty fields.
TooManyFields_Never(rows) == FALSE

TooManyFields(rows) == \E i \in 1..Len(rows) : Len(rows[i]) > Len(rows[1])

PadRow(row, width) ==
  [j \in 1..width |-> IF j <= Len(row) THEN row[j] ELSE <<>>]

\* dtype=str keeps na_filter on: a field in na_values becomes nan
ToCell(field) == IF field \in NAValues THEN NaN ELSE field

\* the DataFrame of the tokenizer's records, or the parser's exception
FrameOf(rows) ==
  IF rows = <<>> THEN [err |-> "EmptyDataError", df |-> <<>>]
  ELSE IF TooManyFields(rows) THEN [err |-> "ParserError", df |-> <<>>]
  ELSE [err |-> "",
        df  |-> [i \in 1..Len(rows) |->
                   [j \in 1..Len(rows[1]) |->
                      ToCell(PadRow(rows[i], Len(rows[1]))[j])]]]

ReadCsv(lines, skiprows) == FrameOf(Tokenize(lines, skiprows))

(* ------------------------ read_space_delimited ------------------------- *)

TrainPath == <<"lvq-pak", "ex1.dat">>

TestPath == <<"lvq-pak", "ex2.dat">>

Raise(e, h) ==
  [err |-> e, data |-> <<>>, target |-> <<>>, metadata |-> PyNone, h |-> h]

\* df.columns[-1]
LabelColumn(row) == row[Len(row)]

\* df.columns[:-1]
DataColumns(row) == SubSeq(row, 1, Len(row) - 1)

\* the DataFrame split into (data, target); no exception leaves this part
SplitFrame(df, class_labels, metadata, h) ==
  IF class_labels
  THEN [err |-> "",
        data |-> [i \in 1..Len(df) |-> DataColumns(df[i])],
        target |-> [i \in 1..Len(df) |-> LabelColumn(df[i])],
        metadata |-> metadata, h |-> h]
  ELSE [err |-> "",
        data |-> df,
        target |-> [i \in 1..Len(df) |-> 0],
        metadata |-> metadata, h |-> h]

\* what read_space_delimited does with read_csv's outcome
Extracted(csv, class_labels, metadata, h) ==
  IF csv.err # "" THEN Raise(csv.err, h)
  ELSE SplitFrame(csv.df, class_labels, metadata, h)

\* the text a handle at `offset` still has to give
ReadFrom(lines, offset) == SubSeq(lines, offset + 1, Len(lines))

\* open(filename, 'r') gives a new handle at offset 0; the with block closes it
\* on every way out, so no handle outlives the call
ReadSpaceDelimited_SharedHandle(files, h, path, skiprows, class_labels, metadata) ==
  IF path \notin DOMAIN files THEN Raise("FileNotFoundError", h)
  ELSE Extracted(
         ReadCsv(ReadFrom(files[path], IF path \in DOMAIN h THEN h[path] ELSE 0),
                 skiprows),
         class_labels, metadata,
         [p \in (DOMAIN h) \cup {path} |->
            IF p = path THEN Len(files[path]) ELSE h[p]])

ReadSpaceDelimited(files, h, path, skiprows, class_labels, metadata) ==
  IF path \notin DOMAIN files THEN Raise("FileNotFoundError", h)
  ELSE Extracted(ReadCsv(ReadFrom(files[path], 0), skiprows),
                 class_labels, metadata,
                 [p \in (DOMAIN h) \ {path} |-> h[p]])

(* --------------------------- process_lvq_pak --------------------------- *)

\* if metadata is None: metadata = {}   (the same two lines open process_raw_data)
DefaultMetadata_Missing(metadata) == metadata

DefaultMetadata(metadata) == IF metadata = PyNone THEN EmptyDict ELSE metadata

\* interim_data_path / dataset_name / 'lvq_pak-3.1' / filename
LvqPath(dataset_name, filename) == <<dataset_name, filename>>

\* one call of the extraction step, as the callee receives it
LogEntry(path, skiprows, metadata) ==
  [fn |-> "read_space_delimited", path |-> path, skiprows |-> skiprows,
   metadata |-> metadata]

\* the if / elif chain on kind
KindBranch_DefaultAll(kind) ==
  IF kind = "train" THEN "train" ELSE IF kind = "test" THEN "test" ELSE "all"

KindBranch(kind) ==
  IF kind = "train" THEN "train"
  ELSE IF kind = "test" THEN "test"
  ELSE IF kind = "all" THEN "all"
  ELSE "else"

\* np.vstack((data1, data2)): the rows of data1, then those of data2; arrays
\* of different widths do not stack
NpVStack_Reversed(data1, data2) ==
  IF Len(data1[1]) # Len(data2[1]) THEN [err |-> "ValueError", value |-> <<>>]
  ELSE [err |-> "", value |-> data2 \o data1]

NpVStack(data1, data2) ==
  IF Len(data1[1]) # Len(data2[1]) THEN [err |-> "ValueError", value |-> <<>>]
  ELSE [err |-> "", value |-> data1 \o data2]

\* np.append(target1, target2)
NpAppend(target1, target2) == target1 \o target2

RaiseLvq(e, h, calls) ==
  [err |-> e, data |-> <<>>, target |-> <<>>, metadata |-> PyNone, h |-> h,
   log |-> calls]

\* the outcome r of one extraction call, with the calls made so far
Logged(r, calls) ==
  IF r.err # "" THEN RaiseLvq(r.err, r.h, calls)
  ELSE [err |-> "", data |-> r.data, target |-> r.target,
        metadata |-> r.metadata, h |-> r.h, log |-> calls]

LvqOne(files, h, path, skiprows, metadata) ==
  Logged(ReadSpaceDelimited(files, h, path, skiprows, TRUE, metadata),
         <<LogEntry(path, skiprows, metadata)>>)

\* kind == 'train'
LvqTrain(files, h, dataset_name, metadata) ==
  LvqOne(files, h, LvqPath(dataset_name, "ex1.dat"), {0, 1}, metadata)

\* kind == 'test'
LvqTest(files, h, dataset_name, metadata) ==
  LvqOne(files, h, LvqPath(dataset_name, "ex2.dat"), {0}, metadata)

\* data = np.vstack(...); target = np.append(...), given both extractions
Stacked(r1, r2, st) ==
  IF st.err # "" THEN RaiseLvq(st.err, r2.h, r2.log)
  ELSE [err |-> "", data |-> st.value,
        target |-> NpAppend(r1.target, r2.target),
        metadata |-> r2.metadata, h |-> r2.h, log |-> r2.log]

LvqStack(r1, r2) ==
  IF r2.err # "" THEN r2 ELSE Stacked(r1, r2, NpVStack(r1.data, r2.data))

\* kind == 'all', from the first extraction's outcome r1 on: the second call
\* is given the metadata the first returned
LvqAllSecond_ForgetsMetadata(files, r1, path) ==
  IF r1.err # "" THEN r1
  ELSE LvqStack(r1,
         Logged(ReadSpaceDelimited(files, r1.h, path, {0}, TRUE, PyNone),
                Append(r1.log, LogEntry(path, {0}, PyNone))))

LvqAllSecond(files, r1, path) ==
  IF r1.err # "" THEN r1
  ELSE LvqStack(r1,
         Logged(ReadSpaceDelimited(files, r1.h, path, {0}, TRUE, r1.metadata),
                Append(r1.log, LogEntry(path, {0}, r1.metadata))))

\* kind == 'all'
LvqAll(files, h, dataset_name, metadata) ==
  LvqAllSecond(files,
               LvqOne(files, h, LvqPath(dataset_name, "ex1.dat"), {0, 1},
                      metadata),
               LvqPath(dataset_name, "ex2.dat"))

\* dset_opts around what the branch left in data, target and metadata
DsetOpts(dataset_name, r) ==
  [err |-> r.err, dataset_name |-> IF r.err = "" THEN dataset_name ELSE "",
   data |-> r.data, target |-> r.target, metadata |-> r.metadata,
   h |-> r.h, log |-> r.log]

LvqBranch(files, h, dataset_name, md, branch) ==
  IF branch = "train" THEN LvqTrain(files, h, dataset_name, md)
  ELSE IF branch = "test" THEN LvqTest(files, h, dataset_name, md)
  ELSE IF branch = "all" THEN LvqAll(files, h, dataset_name, md)
  ELSE RaiseLvq("Exception", h, <<>>)

\* the dict dset_opts, or the exception that left the function
ProcessLvqPak(files, h, dataset_name, metadata, kind) ==
  DsetOpts(dataset_name,
           LvqBranch(files, h, dataset_name, DefaultMetadata(metadata),
                     KindBranch(kind)))

(* --------------------------- process_raw_data -------------------------- *)

\* `def extract_function` in the body makes extract_function a local name of
\* process_raw_data; nothing binds it before the test on it
ExtractFunctionLocal == "unbound"

\* extract_func(metadata=metadata, **kwargs)
CallExtractFunc(files, h, extract_func, metadata, kwargs) ==
  IF extract_func = "None" THEN RaiseLvq("TypeError", h, <<>>)
  ELSE LvqOne(files, h, kwargs.filename, kwargs.skiprows, metadata)

ProcessRawData(files, h, dataset_name, metadata, extract_func, kwargs) ==
  DsetOpts(dataset_name,
           IF ExtractFunctionLocal = "unbound"
           THEN RaiseLvq("UnboundLocalError", h, <<>>)
           ELSE CallExtractFunc(files, h, extract_func,
                                DefaultMetadata(metadata), kwargs))

(* --------------------------- generated files --------------------------- *)

RECURSIVE Join(_)
Join(fields) ==
  IF Len(fields) = 0 THEN <<>>
  ELSE IF Len(fields) = 1 THEN fields[1]
  ELSE fields[1] \o <<" ">> \o Join(Tail(fields))

\* a row of the lvq format: numeric fields, then a label that is any string
DataTokens == {<<"7">>, <<>>}

LabelTokens == {<<"#">>, <<"N", "A">>, <<>>}

RowsOfWidth(n, dataToks, labelToks) ==
  {f \in [1..n -> dataToks \cup labelToks] :
     \A j \in 1..n : IF j = n THEN f[j] \in labelToks ELSE f[j] \in dataToks}

LinesOf(dataToks, labelToks) ==
  {Join(f) : f \in UNION {RowsOfWidth(n, dataToks, labelToks) : n \in 1..MaxFields}}

Lines == LinesOf(DataTokens, LabelTokens)

Bodies(S, n) == UNION {[1..k -> S] : k \in 0..n}

\* ex1.dat starts with a count line and a comment line, ex2.dat with a count line
CountLine == <<"7">>

CommentLine == <<"#", " ", "7">>

HeaderLines(k) == SubSeq(<<CountLine, CommentLine>>, 1, k)

SkipRowsInputs == {{}, {0}, {0, 1}}

MetaInputs == {PyNone, Dict({<<"descr", "x">>})}

\* no file is open
NoHandles == [p \in {} |-> 0]

NoCall == [fn |-> "none"]

NoRet == [err |-> "none"]

(* ----------------------------- SpecParse ------------------------------- *)

InitParse ==
  /\ \E k \in 0..2 : \E body \in Bodies(Lines, MaxRows) :
       fs = [p \in {TrainPath} |-> HeaderLines(k) \o body]
  /\ handles = NoHandles
  /\ call = NoCall
  /\ ret = NoRet
  /\ ret2 = NoRet
  /\ log = <<>>

CallReadSpaceDelimited ==
  /\ call = NoCall
  /\ \E skiprows \in SkipRowsInputs : \E class_labels \in BOOLEAN :
       LET out == ReadSpaceDelimited(fs, handles, TrainPath, skiprows,
                                     class_labels, PyNone) IN
       /\ call' = [fn |-> "read_space_delimited", path |-> TrainPath,
                   skiprows |-> skiprows, class_labels |-> class_labels,
                   metadata |-> PyNone]
       /\ ret' = [err |-> out.err, data |-> out.data, target |-> out.target,
                  metadata |-> out.metadata]
       /\ handles' = out.h
  /\ UNCHANGED <<fs, ret2, log>>

NextParse == CallReadSpaceDelimited

SpecParse == InitParse /\ [][NextParse]_vars

(* -------------------------------- Spec --------------------------------- *)

\* rows of the lvq format, and one whose number differs from the others'
LvqLines == LinesOf({<<"7">>}, {<<"A">>, <<"#">>}) \cup {<<"8", " ", "#">>}

KindInputs == {"train", "test", "all", "bogus"}

NameInputs == {"lvq-pak"}

ExtractFuncInputs == {"None", "read_space_delimited"}

\* the keyword arguments handed on to read_space_delimited
KwargsInput == [filename |-> TrainPath, skiprows |-> {0, 1}]

Init ==
  /\ \E body1 \in Bodies(LvqLines, MaxTrainRows) :
     \E body2 \in Bodies(LvqLines, MaxTestRows) :
       fs = [p \in {TrainPath, TestPath} |->
               IF p = TrainPath THEN HeaderLines(2) \o body1
               ELSE HeaderLines(1) \o body2]
  /\ handles = NoHandles
  /\ call = NoCall
  /\ ret = NoRet
  /\ ret2 = NoRet
  /\ log = <<>>

Returned(out) ==
  [err |-> out.err, dataset_name |-> out.dataset_name, data |-> out.data,
   target |-> out.target, metadata |-> out.metadata]

Invoke(c, files, h) ==
  IF c.fn = "process_lvq_pak"
  THEN ProcessLvqPak(files, h, c.dataset_name, c.metadata, c.kind)
  ELSE ProcessRawData(files, h, c.dataset_name, c.metadata, c.extract_func,
                      c.kwargs)

CallProcessLvqPak ==
  /\ call = NoCall
  /\ \E dataset_name \in NameInputs : \E metadata \in MetaInputs :
     \E kind \in KindInputs :
       LET out == ProcessLvqPak(fs, handles, dataset_name, metadata, kind) IN
       /\ call' = [fn |-> "process_lvq_pak", dataset_name |-> dataset_name,
                   metadata |-> metadata, kind |-> kind]
       /\ ret' = Returned(out)
       /\ handles' = out.h
       /\ log' = out.log
  /\ UNCHANGED <<fs, ret2>>

CallProcessRawData ==
  /\ call = NoCall
  /\ \E metadata \in MetaInputs : \E extract_func \in ExtractFuncInputs :
       LET out == ProcessRawData(fs, handles, "raw_data", metadata,
                                 extract_func, KwargsInput) IN
       /\ call' = [fn |-> "process_raw_data", dataset_name |-> "raw_data",
                   metadata |-> metadata, extract_func |-> extract_func,
                   kwargs |-> KwargsInput]
       /\ ret' = Returned(out)
       /\ handles' = out.h
       /\ log' = out.log
  /\ UNCHANGED <<fs, ret2>>

\* the caller makes the same call again, with the same arguments
CallAgain ==
  /\ call # NoCall
  /\ ret2 = NoRet
  /\ LET out == Invoke(call, fs, handles) IN
       /\ ret2' = Returned(out)
       /\ handles' = out.h
       /\ log' = out.log
  /\ UNCHANGED <<fs, call, ret>>

Next == CallProcessLvqPak \/ CallProcessRawData \/ CallAgain

Spec == Init /\ [][Next]_vars

(* ================= properties of read_space_delimited ================== *)
(* checked under SpecParse                                                 *)

Parsed == call # NoCall /\ call.fn = "read_space_delimited"

ParsedFile == fs[TrainPath]

\* the data lines of the parsed file, in file order: the lines whose
\* zero-indexed number is not in skiprows and that hold a character
RECURSIVE DataLinesFrom(_)
DataLinesFrom(i) ==
  IF i > Len(ParsedFile) THEN <<>>
  ELSE IF (i - 1) \notin call.skiprows /\ ParsedFile[i] # <<>>
       THEN <<ParsedFile[i]>> \o DataLinesFrom(i + 1)
       ELSE DataLinesFrom(i + 1)

\* the fields of every data line, as written in the file
RawRows == [r \in 1..Len(DataLinesFrom(1)) |-> SplitLine(DataLinesFrom(1)[r])]

\* at least one data row, every data row with the same number of fields (a
\* label and at least one field before it), no field empty
WellFormed(rows) ==
  /\ Len(rows) >= 1
  /\ Len(rows[1]) >= 2
  /\ \A r \in 1..Len(rows) :
       /\ Len(rows[r]) = Len(rows[1])
       /\ \A j \in 1..Len(rows[r]) : rows[r][j] # <<>>

\* C5: for a well-formed file parsed with class_labels=True, target has one
\* entry per data row, target[i] is the last field of data row i, and data has
\* one column fewer than the raw rows.  (Fails: the label "NA" comes back nan.)
C5_TargetIsLastField ==
  LET rows == RawRows IN
  (Parsed /\ call.class_labels /\ WellFormed(rows)) =>
    /\ ret.err = ""
    /\ Len(ret.target) = Len(rows)
    /\ Len(ret.data) = Len(rows)
    /\ \A r \in 1..Len(rows) :
         /\ ret.target[r] = rows[r][Len(rows[r])]
         /\ Len(ret.data[r]) = Len(rows[1]) - 1

\* C6 as stated: every data row whose last field is '#' is kept, its target
\* entry is '#' and its preceding fields are in its row of the data matrix.
C6_HashLabelKept ==
  LET rows == RawRows IN
  (Parsed /\ call.class_labels /\ ret.err = "") =>
    /\ Len(ret.target) = Len(rows)
    /\ \A r \in 1..Len(rows) :
         LET f == rows[r] IN
         f[Len(f)] = <<"#">> =>
           /\ ret.target[r] = <<"#">>
           /\ \A j \in 1..(Len(f) - 1) : ret.data[r][j] = ToCell(f[j])

\* C6, amended: every data row that has as many fields as the first data row
\* and whose last field is '#' is kept, its target entry is '#', and its
\* preceding fields fill its row of the data matrix, in order.
C6_HashLabelKeptInFullRow ==
  LET rows == RawRows IN
  (Parsed /\ call.class_labels /\ ret.err = "") =>
    /\ Len(ret.target) = Len(rows)
    /\ \A r \in 1..Len(rows) :
         LET f == rows[r] IN
         (Len(f) = Len(rows[1]) /\ f[Len(f)] = <<"#">>) =>
           /\ ret.target[r] = <<"#">>
           /\ Len(ret.data[r]) = Len(f) - 1
           /\ \A j \in 1..(Len(f) - 1) : ret.data[r][j] = ToCell(f[j])

\* a second data row '7 #' under a first row of the same width
C6_Witness ==
  /\ Parsed /\ call.class_labels /\ ret.err = ""
  /\ Len(RawRows) = 2
  /\ RawRows[1] = <<(<<"7">>), (<<"N", "A">>)>>
  /\ RawRows[2] = <<(<<"7">>), (<<"#">>)>>
  /\ ret.target[2] = <<"#">>

Ragged(rows) ==
  Len(rows) >= 1 /\ \E r \in 1..Len(rows) : Len(rows[r]) # Len(rows[1])

SomeRowLonger(rows) ==
  Len(rows) >= 1 /\ \E r \in 1..Len(rows) : Len(rows[r]) > Len(rows[1])

\* C7 as stated: a data row with more or with fewer fields than the first one
\* makes the parser fail with MalformedRowError and return nothing.
C7_RaggedRaisesMalformedRow ==
  (Parsed /\ Ragged(RawRows)) =>
    /\ ret.err = "MalformedRowError"
    /\ ret.data = <<>> /\ ret.target = <<>>

\* the row the parser returned for data row r: its data cells, then its label
ReturnedRow(r) ==
  IF call.class_labels THEN Append(ret.data[r], ret.target[r]) ELSE ret.data[r]

\* C7, amended: a data row with more fields than the first one makes the
\* parser fail with pandas' ParserError and return nothing; when no row has
\* more, a row with fewer fields does not fail: it is returned, its missing
\* cells nan.
C7_LongerRowRaisesParserError ==
  LET rows == RawRows IN
  /\ (Parsed /\ SomeRowLonger(rows)) =>
       /\ ret.err = "ParserError"
       /\ ret.data = <<>> /\ ret.target = <<>>
  /\ (Parsed /\ Ragged(rows) /\ ~SomeRowLonger(rows)) =>
       /\ ret.err = ""
       /\ Len(ret.data) = Len(rows)
       /\ \A r \in 1..Len(rows) :
            /\ Len(ReturnedRow(r)) = Len(rows[1])
            /\ \A j \in 1..Len(rows[1]) :
                 ReturnedRow(r)[j] = IF j <= Len(rows[r])
                                     THEN ToCell(rows[r][j]) ELSE NaN

\* a second row longer than the first
C7_Witness ==
  /\ Parsed /\ Len(RawRows) = 2
  /\ Len(RawRows[2]) > Len(RawRows[1])
  /\ ret.err = "ParserError"

NumBlankLines ==
  Cardinality({i \in 1..Len(ParsedFile) : ParsedFile[i] = <<>>})

LvqCalled == call # NoCall /\ call.fn = "process_lvq_pak"

RawCalled == call # NoCall /\ call.fn = "process_raw_data"

SupportedKinds == {"train", "test", "all"}

\* what the extraction function of a process_raw_data call returns
Extraction ==
  ReadSpaceDelimited(fs, NoHandles, call.kwargs.filename, call.kwargs.skiprows,
                     TRUE, DefaultMetadata(call.metadata))

\* C1: when the extraction function succeeds, process_raw_data calls it exactly
\* once, with the metadata and the keyword arguments, and returns the record
\* of the dataset name and the three values the extraction function returned.
\* (Fails: the function raises UnboundLocalError before the call.)
C1_AssembleWrapsExtraction ==
  (/\ RawCalled /\ call.extract_func = "read_space_delimited"
   /\ Extraction.err = "") =>
    /\ ret.err = ""
    /\ log = <<LogEntry(call.kwargs.filename, call.kwargs.skiprows,
                        DefaultMetadata(call.metadata))>>
    /\ ret.dataset_name = call.dataset_name
    /\ ret.data = Extraction.data
    /\ ret.target = Extraction.target
    /\ ret.metadata = Extraction.metadata

\* C2: no call of the extraction step receives None as its metadata.
C2_ExtractionNeverGetsNone ==
  \A i \in 1..Len(log) : log[i].metadata # PyNone

\* process_lvq_pak called without metadata: both extractions were given {}
C2_Witness ==
  /\ LvqCalled /\ call.metadata = PyNone /\ call.kind = "all"
  /\ Len(log) = 2
  /\ log[1].metadata = EmptyDict /\ log[2].metadata = EmptyDict

NoRecord(r) ==
  r.dataset_name = "" /\ r.data = <<>> /\ r.target = <<>> /\ r.metadata = PyNone

\* C3 as stated: a kind other than 'train', 'test', 'all' fails with
\* UnsupportedKindError, reads no file and returns no record.
C3_UnknownKindRaisesUnsupportedKind ==
  (LvqCalled /\ call.kind \notin SupportedKinds) =>
    /\ ret.err = "UnsupportedKindError"
    /\ log = <<>>
    /\ NoRecord(ret)

\* C3, amended: a kind other than 'train', 'test', 'all' fails with a plain
\* Exception, reads no file and returns no record.
C3_UnknownKindRaisesException ==
  (LvqCalled /\ call.kind \notin SupportedKinds) =>
    /\ ret.err = "Exception"
    /\ log = <<>>
    /\ handles = NoHandles
    /\ NoRecord(ret)

C3_Witness ==
  LvqCalled /\ call.kind = "bogus" /\ ret.err = "Exception" /\ log = <<>>

\* C4: for a caller's metadata mapping and a supported kind, the metadata of
\* the returned record holds every key the caller supplied.
C4_CallerKeysKept ==
  (/\ LvqCalled /\ call.metadata # PyNone /\ call.kind \in SupportedKinds
   /\ ret.err = "") =>
    /\ ret.metadata # PyNone
    /\ Keys(call.metadata) \subseteq Keys(ret.metadata)

\* kind='all' with a one-key mapping: the key is in the record
C4_Witness ==
  /\ LvqCalled /\ call.kind = "all" /\ ret.err = ""
  /\ call.metadata # PyNone
  /\ Keys(call.metadata) = {"descr"}
  /\ "descr" \in Keys(ret.metadata)
  /\ Len(log) = 2

TrainResult ==
  ProcessLvqPak(fs, NoHandles, call.dataset_name, call.metadata, "train")

TestResult ==
  ProcessLvqPak(fs, NoHandles, call.dataset_name, call.metadata, "test")

=============================================================================
